---------------------------- MODULE Spec2Model ----------------------------
(***************************************************************************)
(* The order ledger of src/app.py: the worksheet (Remote Mirror), the CSV  *)
(* file (Local Store) and the DataFrame `data` of one script run, with the *)
(* add / edit / delete handlers, upload_to_google_sheets and               *)
(* summary_dashboard.                                                      *)
(*                                                                         *)
(* Text cells that the code splits or strips (Order, Order Status, Payment *)
(* Status) are sequences of one-character strings.  Prices are integers    *)
(* (an amount in the smallest unit), so float rounding is not modelled.    *)
(* A numeric cell of a store is a record: the text of a number, a blank    *)
(* cell or any other text.  A date cell of the worksheet is <<dd, mm, yyyy>>*)
(* (the text "dd-mm-yyyy"), a date cell of the CSV file <<yyyy, mm, dd>>,  *)
(* and <<>> is the empty cell.                                              *)
(***************************************************************************)
EXTENDS Integers, Sequences, FiniteSets, Bags, TLC

VARIABLES
    sheet,        \* the worksheet: [header, body], get_all_values() = header row(s) + body
    csv,          \* CSV_FILE: [header, body]
    data,         \* the DataFrame `data` of main(), a sequence of rows
    pc,           \* the position of the current script run
    op,           \* the mutation of the current (or last failed) run
    form,         \* the widget values of the form just submitted
    order_input,  \* the text of the "Order Name(s)" text area
    summary       \* what summary_dashboard rendered in this run

vars == <<sheet, csv, data, pc, op, form, order_input, summary>>

---------------------------------------------------------------------------
(* Bounds *)

\* the largest number of rows the ledger grows to
MaxRows == 3

\* the longest text typed into the "Order Name(s)" area
MaxLen == 3

---------------------------------------------------------------------------
(* Text *)

Range(s) == {s[i] : i \in DOMAIN s}

\* str.isspace of one character
IsSpace(c) == c \in {" ", "\n", "\t"}

RECURSIVE LStrip(_)
LStrip(s) ==
    IF s = <<>> THEN <<>>
    ELSE IF IsSpace(Head(s)) THEN LStrip(Tail(s)) ELSE s

RECURSIVE RStrip(_)
RStrip(s) ==
    IF s = <<>> THEN <<>>
    ELSE IF IsSpace(s[Len(s)]) THEN RStrip(SubSeq(s, 1, Len(s) - 1)) ELSE s

\* str.strip()
Strip(s) == RStrip(LStrip(s))

\* str.replace(old, new) for one-character old and new
Replace(s, old, new) == [i \in DOMAIN s |-> IF s[i] = old THEN new ELSE s[i]]

\* str.split(sep) for a one-character sep: "" gives [""], "a,,b" gives ["a", "", "b"]
RECURSIVE SplitFrom(_, _, _)
SplitFrom(s, sep, cur) ==
    IF s = <<>> THEN <<cur>>
    ELSE IF Head(s) = sep THEN <<cur>> \o SplitFrom(Tail(s), sep, <<>>)
    ELSE SplitFrom(Tail(s), sep, Append(cur, Head(s)))

Split(s, sep) == SplitFrom(s, sep, <<>>)

\* sep.join(items)
RECURSIVE Join(_, _)
Join(sep, items) ==
    IF items = <<>> THEN <<>>
    ELSE IF Len(items) = 1 THEN items[1]
    ELSE items[1] \o sep \o Join(sep, Tail(items))

\* [o.strip() for o in parts if o.strip()]
RECURSIVE StripNonEmpty(_)
StripNonEmpty(parts) ==
    IF parts = <<>> THEN <<>>
    ELSE IF Strip(Head(parts)) # <<>>
         THEN <<Strip(Head(parts))>> \o StripNonEmpty(Tail(parts))
         ELSE StripNonEmpty(Tail(parts))

\* order_list with the newlines left in place: only commas separate items
OrderListCommasOnly(text) == StripNonEmpty(Split(text, ","))

\* order_list of the add form
OrderList(text) == StripNonEmpty(Split(Replace(text, "\n", ","), ","))

\* "; ".join(order_list)
OrderField(text) == Join(<<";", " ">>, OrderList(text))

---------------------------------------------------------------------------
(* The two enums *)

Pending == <<"P","e","n","d","i","n","g">>
InProduction == <<"I","n"," ","P","r","o","d","u","c","t","i","o","n">>
Shipped == <<"S","h","i","p","p","e","d">>
Delivered == <<"D","e","l","i","v","e","r","e","d">>
Cancelled == <<"C","a","n","c","e","l","l","e","d">>
Unpaid == <<"U","n","p","a","i","d">>
PartiallyPaid == <<"P","a","r","t","i","a","l","l","y"," ","P","a","i","d">>
Paid == <<"P","a","i","d">>

order_status_options == <<Pending, InProduction, Shipped, Delivered, Cancelled>>
payment_status_options == <<Unpaid, PartiallyPaid, Paid>>

\* options.index(v): the first position of v
IndexOf(options, v) == CHOOSE i \in DOMAIN options :
    options[i] = v /\ \A j \in DOMAIN options : options[j] = v => i <= j

\* the index looked up without .strip()
OptionIndexUnstripped(options, stored) ==
    IF stored \in Range(options) THEN IndexOf(options, stored) - 1 ELSE 0

\* status_index / payment_index of the edit form, 0-based as in the code
OptionIndex(options, stored) ==
    IF Strip(stored) \in Range(options) THEN IndexOf(options, Strip(stored)) - 1 ELSE 0

\* the option a selectbox shows before the user picks one
SelectDefault(options, stored) == options[OptionIndex(options, stored) + 1]

---------------------------------------------------------------------------
(* Numbers and dates *)

\* a value of a numeric column of the DataFrame
Num(n) == [nan |-> FALSE, v |-> n]
NaN == [nan |-> TRUE, v |-> 0]

\* a numeric cell of a store: the text of a number, an empty cell, other text
NumCell(n) == [kind |-> "number", v |-> n]
BlankCell == [kind |-> "blank", v |-> 0]
TextCell == [kind |-> "text", v |-> 0]

\* pd.to_numeric(cell, errors="coerce")
to_numeric(cell) == IF cell.kind = "number" THEN Num(cell.v) ELSE NaN

\* fillna("") and the cell a number is written as
CellOf(x) == IF x.nan THEN BlankCell ELSE NumCell(x.v)

\* sale - cost
Minus(a, b) == IF a.nan \/ b.nan THEN NaN ELSE Num(a.v - b.v)

\* safe_int(value, default=1): int(float(nan)) raises ValueError
safe_int(value) == IF value.nan THEN Num(1) ELSE value

\* safe_float(value, default=0.0): float(nan) does not raise
safe_float(value) == value

\* a value of the Date column
Date(y, m, d) == [y |-> y, m |-> m, d |-> d]
NaT == [y |-> 0, m |-> 0, d |-> 0]

\* pd.to_datetime("today")
Today == Date(2026, 1, 25)

\* strftime("%d-%m-%Y"), NaT becoming "" by fillna("")
DateCell(dt) == IF dt = NaT THEN <<>> ELSE <<dt.d, dt.m, dt.y>>

\* the ISO date to_csv writes, NaT becoming the empty field
IsoCell(dt) == IF dt = NaT THEN <<>> ELSE <<dt.y, dt.m, dt.d>>

DaysInMonth(y, m) ==
    IF m \in {4, 6, 9, 11} THEN 30
    ELSE IF m = 2 THEN (IF y % 4 = 0 /\ (y % 100 # 0 \/ y % 400 = 0) THEN 29 ELSE 28)
    ELSE 31

\* The format pd.to_datetime infers from the first non-empty cell (pandas 2):
\* month first when the first number can be a month, else day first.
GuessFormat(cell) == IF cell[1] \in 1..12 THEN "mdy" ELSE "dmy"

\* one "dd-mm-yyyy" cell parsed with the inferred format, errors="coerce"
ParseDate(fmt, cell) ==
    IF cell = <<>> THEN NaT
    ELSE LET m == IF fmt = "mdy" THEN cell[1] ELSE cell[2]
             d == IF fmt = "mdy" THEN cell[2] ELSE cell[1]
         IN  IF m \in 1..12 /\ d >= 1 /\ d <= DaysInMonth(cell[3], m)
             THEN Date(cell[3], m, d) ELSE NaT

\* pd.to_datetime(df["Date"], errors="coerce") on the worksheet's column
to_datetime(cells) ==
    LET filled == {i \in DOMAIN cells : cells[i] # <<>>}
    IN  IF filled = {} THEN [i \in DOMAIN cells |-> NaT]
        ELSE LET first == CHOOSE i \in filled : \A j \in filled : i <= j
                 fmt == GuessFormat(cells[first])
             IN  [i \in DOMAIN cells |-> ParseDate(fmt, cells[i])]

---------------------------------------------------------------------------
(* Rows and the two stores *)

\* EXPECTED_COLS, as the fields of a row
EXPECTED_COLS == <<"name", "number", "order", "quantity", "nameset", "cost",
                   "sale", "profit", "status", "payment", "tracking", "date">>

\* one row of df_sorted.fillna("").values.tolist()
SheetRow(r) ==
    [name |-> r.name, number |-> r.number, order |-> r.order,
     quantity |-> CellOf(r.quantity), nameset |-> r.nameset,
     cost |-> CellOf(r.cost), sale |-> CellOf(r.sale), profit |-> CellOf(r.profit),
     status |-> r.status, payment |-> r.payment, tracking |-> r.tracking,
     date |-> DateCell(r.date)]

\* one line of data.to_csv(CSV_FILE, index=False)
CsvRow(r) ==
    [name |-> r.name, number |-> r.number, order |-> r.order,
     quantity |-> CellOf(r.quantity), nameset |-> r.nameset,
     cost |-> CellOf(r.cost), sale |-> CellOf(r.sale), profit |-> CellOf(r.profit),
     status |-> r.status, payment |-> r.payment, tracking |-> r.tracking,
     date |-> IsoCell(r.date)]

\* data.to_csv(CSV_FILE, ...): the header line and one line per row
to_csv(df) == [header |-> 1, body |-> [i \in DOMAIN df |-> CsvRow(df[i])]]

\* worksheet.clear()
ClearedSheet == [header |-> 0, body |-> <<>>]

\* load_data_from_google_sheets: fewer than two rows give the empty frame
load_data_from_google_sheets(ws) ==
    IF ws.header + Len(ws.body) < 2 THEN <<>>
    ELSE LET dates == to_datetime([i \in DOMAIN ws.body |-> ws.body[i].date])
         IN  [i \in DOMAIN ws.body |->
                 [name |-> ws.body[i].name, number |-> ws.body[i].number,
                  order |-> ws.body[i].order,
                  quantity |-> to_numeric(ws.body[i].quantity),
                  nameset |-> ws.body[i].nameset,
                  cost |-> to_numeric(ws.body[i].cost),
                  sale |-> to_numeric(ws.body[i].sale),
                  profit |-> to_numeric(ws.body[i].profit),
                  status |-> ws.body[i].status, payment |-> ws.body[i].payment,
                  tracking |-> ws.body[i].tracking, date |-> dates[i]]]

\* a before-or-equal b in sort_values(by="Date"): NaT sorts last
DateLE(a, b) ==
    IF b = NaT THEN TRUE
    ELSE IF a = NaT THEN FALSE
    ELSE \/ a.y < b.y
         \/ a.y = b.y /\ a.m < b.m
         \/ a.y = b.y /\ a.m = b.m /\ a.d <= b.d

\* r put behind the rows that sort before or equal to it
RECURSIVE InsertByDate(_, _)
InsertByDate(sorted, r) ==
    IF sorted = <<>> THEN <<r>>
    ELSE IF DateLE(Head(sorted).date, r.date)
         THEN <<Head(sorted)>> \o InsertByDate(Tail(sorted), r)
         ELSE <<r>> \o sorted

\* df.sort_values(by="Date").reset_index(drop=True)
RECURSIVE SortByDate(_)
SortByDate(df) ==
    IF df = <<>> THEN <<>>
    ELSE InsertByDate(SortByDate(SubSeq(df, 1, Len(df) - 1)), df[Len(df)])

\* the grid written without sort_values
UploadGridUnsorted(df) ==
    [header |-> 1, body |-> [i \in DOMAIN df |-> SheetRow(df[i])]]

\* the grid worksheet.update() writes: the column names, then the sorted rows
UploadGrid(df) ==
    LET df_sorted == SortByDate(df)
    IN  [header |-> 1, body |-> [i \in DOMAIN df_sorted |-> SheetRow(df_sorted[i])]]

\* the drop one position too far (the last row when there is none behind)
DropRowOffByOne(df, row_id) ==
    [i \in 1..(Len(df) - 1) |-> IF i <= row_id THEN df[i] ELSE df[i + 1]]

\* data.drop(index=row_id).reset_index(drop=True), row_id counted from 1
DropRow(df, row_id) ==
    [i \in 1..(Len(df) - 1) |-> IF i < row_id THEN df[i] ELSE df[i + 1]]

---------------------------------------------------------------------------
(* summary_dashboard *)

\* the Month key: a (year, month) period, or the "NaT" key of an undated row
MonthOf(dt) == [y |-> dt.y, m |-> dt.m]

\* Series.sum(): NaN cells are skipped
RECURSIVE SumSkipNaN(_)
SumSkipNaN(xs) ==
    IF xs = <<>> THEN 0
    ELSE (IF Head(xs).nan THEN 0 ELSE Head(xs).v) + SumSkipNaN(Tail(xs))

\* the rows of df whose index is in idx, in order
RECURSIVE SelectRows(_, _, _)
SelectRows(df, idx, i) ==
    IF i > Len(df) THEN <<>>
    ELSE (IF i \in idx THEN <<df[i]>> ELSE <<>>) \o SelectRows(df, idx, i + 1)

\* the Date column summary_dashboard works on: today everywhere when no row has a
\* date, else the dates as they are (rows sorted by Date)
DashboardFrame(df) ==
    IF \A i \in DOMAIN df : df[i].date = NaT
    THEN [i \in DOMAIN df |-> [df[i] EXCEPT !.date = Today]]
    ELSE SortByDate(df)

\* the groupby with the undated rows left out of every group
monthly_summary_dated_only(df) ==
    LET months == {MonthOf(df[i].date) : i \in DOMAIN df} \ {MonthOf(NaT)}
        group(mo) == SelectRows(df, {i \in DOMAIN df : MonthOf(df[i].date) = mo}, 1)
    IN  {[Month |-> mo,
          Profit |-> SumSkipNaN([i \in DOMAIN group(mo) |-> group(mo)[i].profit]),
          TotalOrders |-> Len(group(mo)),
          Quantity |-> SumSkipNaN([i \in DOMAIN group(mo) |-> group(mo)[i].quantity])]
         : mo \in months}

\* data.groupby("Month").agg(Profit sum, Order count, Quantity sum)
monthly_summary(df) ==
    LET months == {MonthOf(df[i].date) : i \in DOMAIN df}
        group(mo) == SelectRows(df, {i \in DOMAIN df : MonthOf(df[i].date) = mo}, 1)
    IN  {[Month |-> mo,
          Profit |-> SumSkipNaN([i \in DOMAIN group(mo) |-> group(mo)[i].profit]),
          TotalOrders |-> Len(group(mo)),
          Quantity |-> SumSkipNaN([i \in DOMAIN group(mo) |-> group(mo)[i].quantity])]
         : mo \in months}

summary_dashboard(df) ==
    LET frame == DashboardFrame(df)
    IN  [rendered |-> TRUE,
         total_orders |-> Len(frame),
         total_quantity |-> SumSkipNaN([i \in DOMAIN frame |-> frame[i].quantity]),
         total_profit |-> SumSkipNaN([i \in DOMAIN frame |-> frame[i].profit]),
         total_sales |-> SumSkipNaN([i \in DOMAIN frame |-> frame[i].sale]),
         monthly |-> monthly_summary(frame)]

---------------------------------------------------------------------------
(* Forms *)

\* What the user typed into a form: `touched` names the widgets the user set; a
\* widget left alone keeps the value the code gave it.  The submitted values
\* keep `touched` beside them.
Widget(typed, field, default) == IF field \in typed.touched THEN typed[field] ELSE default

\* the widgets of add_order_form as submitted
AddValues(typed) ==
    [touched |-> typed.touched,
     name |-> Widget(typed, "name", ""),
     number |-> Widget(typed, "number", ""),
     order |-> order_input,
     quantity |-> Num(Widget(typed, "quantity", 1)),
     nameset |-> Widget(typed, "nameset", ""),
     cost |-> Num(Widget(typed, "cost", 0)),
     sale |-> Num(Widget(typed, "sale", 0)),
     status |-> Widget(typed, "status", order_status_options[1]),
     payment |-> Widget(typed, "payment", payment_status_options[1]),
     tracking |-> Widget(typed, "tracking", ""),
     date |-> Widget(typed, "date", Today)]

\* number_input(min_value=...) and selectbox(options) of add_order_form: the values
\* the widgets can return
AddWidgetsAllow(v) ==
    /\ v.quantity.v >= 1
    /\ v.cost.v >= 0
    /\ v.sale.v >= 0
    /\ v.status \in Range(order_status_options)
    /\ v.payment \in Range(payment_status_options)

\* new_entry
NewEntry(v) ==
    [name |-> v.name, number |-> v.number, order |-> OrderField(v.order),
     quantity |-> v.quantity, nameset |-> v.nameset, cost |-> v.cost, sale |-> v.sale,
     profit |-> Minus(v.sale, v.cost), status |-> v.status, payment |-> v.payment,
     tracking |-> v.tracking, date |-> v.date]

\* the check with the Number forgotten
AddAcceptedWithoutNumber(v) == v.name # "" /\ OrderList(v.order) # <<>>

\* if name and number and order_list
AddAccepted(v) == v.name # "" /\ v.number # "" /\ OrderList(v.order) # <<>>

\* the widgets of edit_form as submitted, for the selected row
EditValues(row, typed) ==
    [touched |-> typed.touched,
     name |-> Widget(typed, "name", row.name),
     number |-> Widget(typed, "number", row.number),
     order |-> Widget(typed, "order", row.order),
     quantity |-> IF "quantity" \in typed.touched THEN Num(typed.quantity)
                  ELSE safe_int(row.quantity),
     nameset |-> Widget(typed, "nameset", row.nameset),
     cost |-> IF "cost" \in typed.touched THEN Num(typed.cost) ELSE safe_float(row.cost),
     sale |-> IF "sale" \in typed.touched THEN Num(typed.sale) ELSE safe_float(row.sale),
     status |-> Widget(typed, "status", SelectDefault(order_status_options, row.status)),
     payment |-> Widget(typed, "payment",
                        SelectDefault(payment_status_options, row.payment)),
     tracking |-> Widget(typed, "tracking", row.tracking),
     date |-> Widget(typed, "date", IF row.date # NaT THEN row.date ELSE Today)]

\* selectbox(options) of edit_form
EditWidgetsAllow(v) ==
    /\ v.status \in Range(order_status_options)
    /\ v.payment \in Range(payment_status_options)

\* the assigned list with a loss shown as a profit of 0
EditedRowProfitClamped(v) ==
    [name |-> v.name, number |-> v.number, order |-> v.order,
     quantity |-> v.quantity, nameset |-> v.nameset, cost |-> v.cost, sale |-> v.sale,
     profit |-> IF Minus(v.sale, v.cost).v < 0 THEN Num(0) ELSE Minus(v.sale, v.cost),
     status |-> v.status, payment |-> v.payment,
     tracking |-> v.tracking, date |-> v.date]

\* the list assigned to data.loc[row_id]
EditedRow(v) ==
    [name |-> v.name, number |-> v.number, order |-> v.order,
     quantity |-> v.quantity, nameset |-> v.nameset, cost |-> v.cost, sale |-> v.sale,
     profit |-> Minus(v.sale, v.cost), status |-> v.status, payment |-> v.payment,
     tracking |-> v.tracking, date |-> v.date]

NoForm ==
    [touched |-> {}, name |-> "", number |-> "", order |-> <<>>, quantity |-> NaN, nameset |-> "",
     cost |-> NaN, sale |-> NaN, status |-> <<>>, payment |-> <<>>, tracking |-> "",
     date |-> NaT]

NoOp == [kind |-> "none", row_id |-> 0, before |-> <<>>, failed |-> FALSE,
         after_failure |-> FALSE]

NoSummary == [rendered |-> FALSE, total_orders |-> 0, total_quantity |-> 0,
              total_profit |-> 0, total_sales |-> 0, monthly |-> {}]

---------------------------------------------------------------------------
(* The script run *)

\* main(): data = load_data_from_google_sheets(...); data.to_csv(CSV_FILE, ...)
LoadSession ==
    /\ pc = "idle"
    /\ data' = load_data_from_google_sheets(sheet)
    /\ csv' = to_csv(data')
    /\ summary' = NoSummary
    /\ pc' = "loaded"
    /\ UNCHANGED <<sheet, op, form, order_input>>

\* "Submit" of add_order_form
AddSubmit(typed) ==
    /\ pc = "loaded"
    /\ LET v == AddValues(typed)
       IN  /\ AddWidgetsAllow(v)
           /\ form' = v
           /\ \/ /\ AddAccepted(v)
                 /\ Len(data) < MaxRows
                 /\ data' = Append(data, NewEntry(v))
                 /\ op' = [kind |-> "add", row_id |-> 0, before |-> data,
                           failed |-> FALSE, after_failure |-> op.failed]
                 /\ pc' = "upload"
              \/ /\ ~AddAccepted(v)
                 /\ data' = data
                 /\ op' = [kind |-> "rejected", row_id |-> 0, before |-> data,
                           failed |-> FALSE, after_failure |-> op.failed]
                 /\ pc' = "rejected"
    /\ UNCHANGED <<sheet, csv, order_input, summary>>

\* "Save" of edit_form on the selected row (row_id counted from 1)
SaveEdit(row_id, typed) ==
    /\ pc = "loaded"
    /\ data # <<>>
    /\ row_id \in DOMAIN data
    /\ LET v == EditValues(data[row_id], typed)
       IN  /\ EditWidgetsAllow(v)
           /\ form' = v
           /\ data' = [data EXCEPT ![row_id] = EditedRow(v)]
    /\ op' = [kind |-> "edit", row_id |-> row_id, before |-> data,
              failed |-> FALSE, after_failure |-> op.failed]
    /\ pc' = "upload"
    /\ UNCHANGED <<sheet, csv, order_input, summary>>

\* "Delete" of edit_form on the selected row
DeleteRow(row_id) ==
    /\ pc = "loaded"
    /\ data # <<>>
    /\ row_id \in DOMAIN data
    /\ data' = DropRow(data, row_id)
    /\ op' = [kind |-> "delete", row_id |-> row_id, before |-> data,
              failed |-> FALSE, after_failure |-> op.failed]
    /\ pc' = "upload"
    /\ form' = NoForm
    /\ UNCHANGED <<sheet, csv, order_input, summary>>

\* clear() in a handler that wrote the CSV file before uploading
ClearAfterLocalWrite ==
    /\ pc = "upload"
    /\ sheet' = ClearedSheet
    /\ csv' = to_csv(data)
    /\ pc' = "cleared"
    /\ form' = NoForm
    /\ UNCHANGED <<data, op, order_input, summary>>

\* upload_to_google_sheets: worksheet.clear()
Clear ==
    /\ pc = "upload"
    /\ sheet' = ClearedSheet
    /\ pc' = "cleared"
    /\ form' = NoForm
    /\ UNCHANGED <<csv, data, op, order_input, summary>>

\* upload_to_google_sheets: worksheet.update(...)
Update ==
    /\ pc = "cleared"
    /\ sheet' = UploadGrid(data)
    /\ pc' = "uploaded"
    /\ UNCHANGED <<csv, data, op, form, order_input, summary>>

\* data.to_csv(CSV_FILE, ...) after upload_to_google_sheets returned
SaveCsv ==
    /\ pc = "uploaded"
    /\ csv' = to_csv(data)
    /\ pc' = "saved"
    /\ UNCHANGED <<sheet, data, op, form, order_input, summary>>

\* A call of upload_to_google_sheets raises (no network, quota, credentials):
\* before or in clear(), or in update() after clear() went through.  The
\* exception ends the script run, and with it main()'s local `data`.
RemoteFail ==
    /\ pc \in {"upload", "cleared"}
    /\ op' = [op EXCEPT !.failed = TRUE]
    /\ pc' = "idle"
    /\ form' = NoForm
    /\ data' = <<>>
    /\ UNCHANGED <<sheet, csv, order_input, summary>>

\* st.rerun() after "Order Added!"
Rerun ==
    /\ pc = "saved"
    /\ op.kind = "add"
    /\ op' = NoOp
    /\ pc' = "idle"
    /\ data' = <<>>
    /\ UNCHANGED <<sheet, csv, form, order_input, summary>>

\* The rest of the run: tab2 calls summary_dashboard(data) and tab3 shows the
\* frame; the run ends and main()'s local `data` with it.
RenderTabs ==
    /\ \/ pc \in {"loaded", "rejected"}
       \/ pc = "saved" /\ op.kind \in {"edit", "delete"}
    /\ summary' = summary_dashboard(data)
    /\ data' = <<>>
    /\ op' = NoOp
    /\ form' = NoForm
    /\ pc' = "idle"
    /\ UNCHANGED <<sheet, csv, order_input>>

---------------------------------------------------------------------------
(* Inputs *)

D5Jan == Date(2026, 1, 5)
D25Jan == Date(2026, 1, 25)

MugShirt == <<"M","u","g",","," ","S","h","i","r","t">>
BlankOrder == <<" ", ",", "\n">>

AllWidgets == {"name", "number", "order", "quantity", "nameset", "cost", "sale",
               "status", "payment", "tracking", "date"}

\* a form filled in completely: the scenario of the add form
Filled ==
    [touched |-> AllWidgets, name |-> "Alice", number |-> "555",
     order |-> <<"M","u","g">>, quantity |-> 2, nameset |-> "", cost |-> 10,
     sale |-> 25, status |-> Pending, payment |-> Unpaid, tracking |-> "",
     date |-> D5Jan]

\* a form in which only the listed widgets were set
Only(fields, typed) == [typed EXCEPT !.touched = fields]

\* every text of at most n characters over the alphabet
Alphabet == {"a", "b", ",", "\n", " "}
Texts(n) == UNION {[1..k -> Alphabet] : k \in 0..n}

\* the worksheet as an earlier upload left it
HeaderOnly == [header |-> 1, body |-> <<>>]

InitWith(sheets, texts) ==
    /\ sheet \in sheets
    /\ csv = [header |-> 0, body |-> <<>>]
    /\ data = <<>>
    /\ pc = "idle"
    /\ op = NoOp
    /\ form = NoForm
    /\ order_input \in texts
    /\ summary = NoSummary

NextWith(adds, edits) ==
    \/ LoadSession
    \/ \E typed \in adds : AddSubmit(typed)
    \/ \E row_id \in 1..MaxRows, typed \in edits : SaveEdit(row_id, typed)
    \/ \E row_id \in 1..MaxRows : DeleteRow(row_id)
    \/ Clear
    \/ Update
    \/ SaveCsv
    \/ RemoteFail
    \/ Rerun
    \/ RenderTabs

(* The ledger under well-formed forms *)
MainSheets == {ClearedSheet, HeaderOnly}
MainTexts == {MugShirt, BlankOrder}
MainAdds ==
    {Filled, [Filled EXCEPT !.date = D25Jan], [Filled EXCEPT !.name = ""],
     [Filled EXCEPT !.number = ""]}
MainEdits ==
    {Only({"sale"}, [Filled EXCEPT !.sale = 15]),
     Only({"cost", "sale"}, [Filled EXCEPT !.cost = 25, !.sale = 15])}

Init == InitWith(MainSheets, MainTexts)
Next == NextWith(MainAdds, MainEdits)
Spec == Init /\ [][Next]_vars

---------------------------------------------------------------------------
(* What it means for a store to hold a record *)

\* the cell holds the number x as text, or is empty for a missing number
HoldsNumber(cell, x) ==
    \/ x.nan /\ cell.kind = "blank"
    \/ ~x.nan /\ cell.kind = "number" /\ cell.v = x.v

HoldsFields(c, r) ==
    /\ c.name = r.name /\ c.number = r.number /\ c.order = r.order
    /\ c.nameset = r.nameset /\ c.tracking = r.tracking
    /\ c.status = r.status /\ c.payment = r.payment
    /\ HoldsNumber(c.quantity, r.quantity) /\ HoldsNumber(c.cost, r.cost)
    /\ HoldsNumber(c.sale, r.sale) /\ HoldsNumber(c.profit, r.profit)

\* a worksheet row holds record r: its date is r's date written dd-mm-yyyy
RemoteHolds(c, r) ==
    /\ HoldsFields(c, r)
    /\ IF r.date = NaT THEN c.date = <<>>
       ELSE c.date = <<r.date.d, r.date.m, r.date.y>>

\* a CSV line holds record r: its date is r's date written yyyy-mm-dd
LocalHolds(c, r) ==
    /\ HoldsFields(c, r)
    /\ IF r.date = NaT THEN c.date = <<>>
       ELSE c.date = <<r.date.y, r.date.m, r.date.d>>

\* the worksheet holds exactly the records of df, each once, in some order
RemoteHoldsAll(ws, df) ==
    /\ Len(ws.body) = Len(df)
    /\ \E p \in Permutations(DOMAIN df) :
           \A i \in DOMAIN df : RemoteHolds(ws.body[i], df[p[i]])

\* the CSV file holds exactly the records of df, each once, in some order
LocalHoldsAll(file, df) ==
    /\ file.header = 1
    /\ Len(file.body) = Len(df)
    /\ \E p \in Permutations(DOMAIN df) :
           \A i \in DOMAIN df : LocalHolds(file.body[i], df[p[i]])

\* two dd-mm-yyyy cells in ascending order, an empty date after every date
CellDateAscending(a, b) ==
    \/ b = <<>>
    \/ /\ a # <<>>
       /\ \/ a[3] < b[3]
          \/ a[3] = b[3] /\ a[2] < b[2]
          \/ a[3] = b[3] /\ a[2] = b[2] /\ a[1] <= b[1]

RemoteSorted(ws) ==
    \A i, j \in DOMAIN ws.body : i < j => CellDateAscending(ws.body[i].date, ws.body[j].date)

---------------------------------------------------------------------------
(* C1 *)

---------------------------------------------------------------------------
(* C2 *)

\* C2: after a mutation whose two persistence steps succeeded, the worksheet
\* and the CSV file hold exactly the records of the updated snapshot, the
\* worksheet below one header row and in ascending Date order; also when an
\* earlier mutation's replication had failed.
C2_StoresEqualSnapshot ==
    pc = "saved" =>
        /\ sheet.header = 1
        /\ RemoteHoldsAll(sheet, data)
        /\ RemoteSorted(sheet)
        /\ LocalHoldsAll(csv, data)

\* a mutation after a failed one, whose upload had to reorder the rows
C2_Witness ==
    /\ pc = "saved" /\ op.after_failure
    /\ Len(data) >= 2
    /\ \E i \in DOMAIN data : ~RemoteHolds(sheet.body[i], data[i])
    /\ RemoteHoldsAll(sheet, data)

---------------------------------------------------------------------------
(* C5 *)

\* C5: an edit replaces every field of the selected row by the submitted
\* fields, sets its Profit to Sale Price - Cost Price, and leaves the other
\* rows, the row count and the positions unchanged.
C5_EditReplacesOneRow ==
    (pc = "upload" /\ op.kind = "edit") =>
        /\ Len(data) = Len(op.before)
        /\ op.row_id \in DOMAIN op.before
        /\ \A i \in DOMAIN data : i # op.row_id => data[i] = op.before[i]
        /\ LET r == data[op.row_id]
           IN  /\ r.name = form.name /\ r.number = form.number
               /\ r.order = form.order /\ r.quantity = form.quantity
               /\ r.nameset = form.nameset /\ r.cost = form.cost
               /\ r.sale = form.sale /\ r.status = form.status
               /\ r.payment = form.payment /\ r.tracking = form.tracking
               /\ r.date = form.date
               /\ ~r.profit.nan
               /\ r.profit.v = form.sale.v - form.cost.v

\* a row of a longer ledger edited into a loss
C5_Witness ==
    /\ pc = "upload" /\ op.kind = "edit"
    /\ Len(data) >= 2
    /\ data[op.row_id] # op.before[op.row_id]
    /\ data[op.row_id].profit.v < 0

---------------------------------------------------------------------------
(* C6 *)

\* C6: a delete removes exactly the selected row, the others keep content and
\* order at contiguous positions, and that snapshot is persisted; deleting the
\* only row leaves header-only stores, which the next load reads as the empty
\* snapshot.
C6_DeleteRemovesOneRow ==
    /\ (pc \in {"upload", "cleared", "uploaded", "saved"} /\ op.kind = "delete") =>
           /\ Len(data) = Len(op.before) - 1
           /\ DOMAIN data = 1..(Len(op.before) - 1)
           /\ \A i \in DOMAIN data :
                  data[i] = IF i < op.row_id THEN op.before[i] ELSE op.before[i + 1]
    /\ (pc = "saved" /\ op.kind = "delete") =>
           /\ RemoteHoldsAll(sheet, data) /\ LocalHoldsAll(csv, data)
           /\ Len(op.before) = 1 =>
                  /\ data = <<>>
                  /\ sheet = [header |-> 1, body |-> <<>>]
                  /\ csv = [header |-> 1, body |-> <<>>]
    /\ (pc = "loaded" /\ sheet = [header |-> 1, body |-> <<>>]) => data = <<>>

\* the middle row of three different rows deleted and persisted
C6_Witness ==
    /\ pc = "saved" /\ op.kind = "delete"
    /\ Len(op.before) = 3 /\ op.row_id = 2
    /\ op.before[1] # op.before[3] /\ op.before[1] # op.before[2]
    /\ data = <<op.before[1], op.before[3]>>

---------------------------------------------------------------------------
(* C10 *)

\* C10: whatever step of the clear-then-rewrite fails, after the next session
\* load every record the Local Store held before the failed mutation is still
\* in the Local Store and in the loaded snapshot.
C10_NoLossOnRemoteFailure ==
    (pc = "loaded" /\ op.failed) =>
        \A i \in DOMAIN op.before :
            /\ \E j \in DOMAIN csv.body : LocalHolds(csv.body[j], op.before[i])
            /\ \E j \in DOMAIN data : data[j] = op.before[i]

---------------------------------------------------------------------------
(* The add form under every short order text *)

\* an order recorded earlier
CapRow ==
    [name |-> "Bob", number |-> "777", order |-> <<"C","a","p">>,
     quantity |-> Num(1), nameset |-> "", cost |-> Num(5), sale |-> Num(5),
     profit |-> Num(0), status |-> Shipped, payment |-> Paid, tracking |-> "",
     date |-> D25Jan]

Filled25 == [Filled EXCEPT !.date = D25Jan]

AddSheets == {ClearedSheet, [header |-> 1, body |-> <<SheetRow(CapRow)>>]}
AddTexts == Texts(MaxLen) \cup {MugShirt}
AddAdds == {Filled25, [Filled25 EXCEPT !.name = ""], [Filled25 EXCEPT !.number = ""]}
AddEdits == {Only({}, Filled25)}

InitAdd == InitWith(AddSheets, AddTexts)
NextAdd == NextWith(AddAdds, AddEdits)
SpecAdd == InitAdd /\ [][NextAdd]_vars

\* The items of an order text, read off its characters from left to right: an
\* item ends at a comma, a newline or the end of the text, loses the blanks
\* around it and is dropped when nothing is left; the items are put together
\* with "; " between them.
IsSeparator(c) == c \in {",", "\n"}

Trimmed(s) ==
    LET inked == {i \in DOMAIN s : s[i] \notin {" ", "\n", "\t"}}
    IN  IF inked = {} THEN <<>>
        ELSE SubSeq(s, CHOOSE i \in inked : \A j \in inked : i <= j,
                       CHOOSE i \in inked : \A j \in inked : j <= i)

RECURSIVE ItemsFrom(_, _, _, _)
ItemsFrom(text, i, item, out) ==
    IF i > Len(text) \/ IsSeparator(text[i])
    THEN LET out2 == IF Trimmed(item) = <<>> THEN out
                     ELSE IF out = <<>> THEN Trimmed(item)
                     ELSE out \o <<";", " ">> \o Trimmed(item)
         IN  IF i > Len(text) THEN out2 ELSE ItemsFrom(text, i + 1, <<>>, out2)
    ELSE ItemsFrom(text, i + 1, Append(item, text[i]), out)

ExpectedOrder(text) == ItemsFrom(text, 1, <<>>, <<>>)

\* the text holds a character that is neither a separator nor a blank
HasItem(text) == \E i \in DOMAIN text : text[i] \notin {",", "\n", " ", "\t"}

---------------------------------------------------------------------------
(* C3 *)

---------------------------------------------------------------------------
(* C4 *)

\* C4: an accepted add appends exactly one row, the earlier rows unchanged,
\* whose Order is the items of the submitted text joined by "; " and whose
\* Profit is Sale Price - Cost Price ("Mug, Shirt", 10, 25 gives "Mug; Shirt", 15).
C4_AddAppendsOneRow ==
    (pc = "upload" /\ op.kind = "add") =>
        /\ Len(data) = Len(op.before) + 1
        /\ \A i \in DOMAIN op.before : data[i] = op.before[i]
        /\ LET r == data[Len(data)]
           IN  /\ r.order = ExpectedOrder(form.order)
               /\ r.name = form.name /\ r.number = form.number
               /\ r.quantity = form.quantity /\ r.cost = form.cost
               /\ r.sale = form.sale
               /\ ~r.profit.nan /\ r.profit.v = form.sale.v - form.cost.v
               /\ form.order = MugShirt =>
                      r.order = <<"M","u","g",";"," ","S","h","i","r","t">>
               /\ (form.cost.v = 10 /\ form.sale.v = 25) => r.profit.v = 15

\* the scenario of the spec, added behind an earlier row
C4_Witness ==
    /\ pc = "upload" /\ op.kind = "add"
    /\ Len(op.before) >= 1
    /\ form.order = MugShirt
    /\ data[Len(data)].order = <<"M","u","g",";"," ","S","h","i","r","t">>
    /\ data[Len(data)].profit = Num(15)

---------------------------------------------------------------------------
(* The edit form under values the add form would refuse *)

EditSheets == {HeaderOnly}
EditTexts == {MugShirt}
EditAdds == {Filled25, [Filled25 EXCEPT !.name = ""]}
EditEdits ==
    {Only({"name"}, [Filled25 EXCEPT !.name = ""]),
     Only({"quantity"}, [Filled25 EXCEPT !.quantity = 0]),
     Only({"cost"}, [Filled25 EXCEPT !.cost = -1])}

InitEdit == InitWith(EditSheets, EditTexts)
NextEdit == NextWith(EditAdds, EditEdits)
SpecEdit == InitEdit /\ [][NextEdit]_vars

\* the constraints of a record, on a row as a store holds it
WellFormedCells(c) ==
    /\ c.name # "" /\ c.number # "" /\ c.order # <<>>
    /\ c.quantity.kind = "number" /\ c.quantity.v >= 1
    /\ c.cost.kind = "number" /\ c.cost.v >= 0
    /\ c.sale.kind = "number" /\ c.sale.v >= 0

---------------------------------------------------------------------------
(* C7 *)

\* C7: from a ledger of well-formed rows, every row in the CSV file and in
\* the worksheet keeps a non-empty Customer Name, Number and Order, a
\* Quantity of at least 1 and a Cost Price and Sale Price of at least 0.
C7_PersistedRowsWellFormed ==
    /\ \A i \in DOMAIN sheet.body : WellFormedCells(sheet.body[i])
    /\ \A i \in DOMAIN csv.body : WellFormedCells(csv.body[i])

---------------------------------------------------------------------------
(* A worksheet whose status cells were typed by hand *)

PaddedShipped == <<" ">> \o Shipped \o <<" ">>
LowerShipped == <<"s","h","i","p","p","e","d">>
PaddedPaid == <<" ">> \o Paid
Unknown == <<"?">>

StoredRows ==
    {SheetRow([CapRow EXCEPT !.status = PaddedShipped, !.payment = Unpaid]),
     SheetRow([CapRow EXCEPT !.status = LowerShipped, !.payment = PaddedPaid]),
     SheetRow([CapRow EXCEPT !.status = <<>>, !.payment = Unknown])}

StoredSheets ==
    {[header |-> 1, body |-> <<a>>] : a \in StoredRows}
        \cup {[header |-> 1, body |-> <<a, b>>] : a, b \in StoredRows}
StoredTexts == {MugShirt}
StoredAdds == {Filled25, [Filled25 EXCEPT !.number = ""]}
StoredEdits ==
    {Only({}, Filled25), Only({"status"}, [Filled25 EXCEPT !.status = Delivered])}

InitStored == InitWith(StoredSheets, StoredTexts)
NextStored == NextWith(StoredAdds, StoredEdits)
SpecStored == InitStored /\ [][NextStored]_vars

OrderStatuses == {Pending, InProduction, Shipped, Delivered, Cancelled}
PaymentStatuses == {Unpaid, PartiallyPaid, Paid}

\* what an untouched selectbox must submit for a stored value
Fallback(stored, allowed, first) ==
    IF Trimmed(stored) \in allowed THEN Trimmed(stored) ELSE first

---------------------------------------------------------------------------
(* C8 *)

\* C8, as stated: whatever the ledger holds, no add, edit or delete writes a
\* record whose Order Status or Payment Status is outside its enum.
C8_NoStatusOutsideEnumsWritten ==
    pc = "saved" =>
        /\ \A i \in DOMAIN sheet.body :
               sheet.body[i].status \in OrderStatuses
               /\ sheet.body[i].payment \in PaymentStatuses
        /\ \A i \in DOMAIN csv.body :
               csv.body[i].status \in OrderStatuses
               /\ csv.body[i].payment \in PaymentStatuses

\* C8, amended: the record an add or an edit writes for the added or edited
\* row has both statuses inside their enums; in an edit a status widget left
\* alone submits the stored value trimmed when that is a member (compared
\* case-sensitively) and the first member (Pending / Unpaid) when it is not.
\* Every other row is written back with its stored statuses as they are, so a
\* value outside the enums stays in both stores until its row is edited.
C8_WrittenRowStatusesInEnums ==
    /\ (pc = "upload" /\ op.kind = "add") =>
           /\ data[Len(data)].status \in OrderStatuses
           /\ data[Len(data)].payment \in PaymentStatuses
    /\ (pc = "upload" /\ op.kind = "edit") =>
           LET old == op.before[op.row_id]
               new == data[op.row_id]
           IN  /\ new.status \in OrderStatuses
               /\ new.payment \in PaymentStatuses
               /\ "status" \notin form.touched =>
                      new.status = Fallback(old.status, OrderStatuses, Pending)
               /\ "payment" \notin form.touched =>
                      new.payment = Fallback(old.payment, PaymentStatuses, Unpaid)
    /\ (pc = "saved" /\ op.kind \in {"add", "edit", "delete"}) =>
           /\ RemoteHoldsAll(sheet, data) /\ LocalHoldsAll(csv, data)
           /\ op.kind = "edit" =>
                  \A i \in DOMAIN data : i # op.row_id =>
                      /\ data[i].status = op.before[i].status
                      /\ data[i].payment = op.before[i].payment
           /\ op.kind = "add" =>
                  \A i \in DOMAIN op.before :
                      /\ data[i].status = op.before[i].status
                      /\ data[i].payment = op.before[i].payment
           /\ op.kind = "delete" =>
                  \A i \in DOMAIN data :
                      \E j \in DOMAIN op.before :
                          /\ data[i].status = op.before[j].status
                          /\ data[i].payment = op.before[j].payment

\* an edit that left the status widgets alone on a row whose stored statuses
\* are no members, beside a row whose statuses stay outside the enums
C8_Witness ==
    /\ pc = "upload" /\ op.kind = "edit"
    /\ form.touched = {}
    /\ op.before[op.row_id].status \notin OrderStatuses
    /\ Trimmed(op.before[op.row_id].status) \notin OrderStatuses
    /\ data[op.row_id].status = Pending
    /\ data[op.row_id].payment = Paid
    /\ \E i \in DOMAIN data : i # op.row_id /\ data[i].payment \notin PaymentStatuses

---------------------------------------------------------------------------
(* The dashboard over a worksheet with empty dates and cells that are no numbers *)

DashRows ==
    {SheetRow(CapRow),
     [SheetRow(CapRow) EXCEPT !.date = <<>>, !.profit = NumCell(7)],
     [SheetRow(CapRow) EXCEPT !.date = <<5, 1, 2026>>, !.quantity = TextCell],
     [SheetRow(CapRow) EXCEPT !.date = <<>>, !.profit = BlankCell,
                              !.quantity = NumCell(4)]}

DashSheets ==
    {HeaderOnly}
        \cup {[header |-> 1, body |-> <<a>>] : a \in DashRows}
        \cup {[header |-> 1, body |-> <<a, b>>] : a, b \in DashRows}
DashTexts == {MugShirt}
DashAdds == {Filled, [Filled EXCEPT !.name = ""]}
DashEdits == {Only({"cost", "sale"}, [Filled EXCEPT !.cost = 25, !.sale = 15])}

InitDash == InitWith(DashSheets, DashTexts)
NextDash == NextWith(DashAdds, DashEdits)
SpecDash == InitDash /\ [][NextDash]_vars

\* the sum of a field over the rows of the Monthly Rollup
RECURSIVE RollupSum(_, _)
RollupSum(rollup, field) ==
    IF rollup = {} THEN 0
    ELSE LET g == CHOOSE x \in rollup : TRUE
         IN  g[field] + RollupSum(rollup \ {g}, field)

\* the sum of the cells of a CSV column that hold a number
RECURSIVE ColumnSum(_, _)
ColumnSum(lines, field) ==
    IF lines = <<>> THEN 0
    ELSE (IF Head(lines)[field].kind = "number" THEN Head(lines)[field].v ELSE 0)
             + ColumnSum(Tail(lines), field)

---------------------------------------------------------------------------
(* C9 *)

\* C9: for every snapshot the dashboard renders, also one in which some rows
\* have a date and some have none, the Monthly Rollup partitions the rows: its
\* Total Orders add up to the number of rows, its Quantity and Profit sums to
\* the totals over the numeric cells.  (When a run renders the dashboard the
\* CSV file holds the rendered snapshot.)
C9_RollupPartitionsSnapshot ==
    (pc = "idle" /\ summary.rendered) =>
        /\ summary.total_orders = Len(csv.body)
        /\ RollupSum(summary.monthly, "TotalOrders") = Len(csv.body)
        /\ summary.total_quantity = ColumnSum(csv.body, "quantity")
        /\ RollupSum(summary.monthly, "Quantity") = ColumnSum(csv.body, "quantity")
        /\ summary.total_profit = ColumnSum(csv.body, "profit")
        /\ RollupSum(summary.monthly, "Profit") = ColumnSum(csv.body, "profit")

\* a rendered snapshot with dated rows of two months and an undated row, a
\* Quantity that is no number and an empty Profit
C9_Witness ==
    /\ pc = "idle" /\ summary.rendered
    /\ \E i \in DOMAIN csv.body : csv.body[i].date = <<>>
    /\ \E i, j \in DOMAIN csv.body :
           /\ csv.body[i].date # <<>> /\ csv.body[j].date # <<>>
           /\ csv.body[i].date[2] # csv.body[j].date[2]
    /\ \E i \in DOMAIN csv.body : csv.body[i].quantity.kind # "number"
    /\ Cardinality(summary.monthly) = 3
    /\ RollupSum(summary.monthly, "TotalOrders") = 3

=============================================================================
